---- MODULE Spec2Model ----
(***************************************************************************)
(* Model of the Dory scalar packer and of the composite polynomial builder *)
(* of proof-of-sql                                                         *)
(*   crates/proof-of-sql/src/proof_primitive/dory/offset_to_bytes.rs       *)
(*   crates/proof-of-sql/src/proof_primitive/dory/pack_scalars.rs          *)
(*   crates/proofs/src/sql/proof/composite_polynomial_builder.rs           *)
(*                                                                         *)
(* Integers wider than TLC's machine integers are kept as base-256 digit   *)
(* sequences, least significant digit first.  A signed value of w bytes is *)
(* w digits whose first w-1 digits are in 0..255 and whose last digit is   *)
(* in -128..127, so that the value is the sum of digit[k] * 256^(k-1).     *)
(* An unsigned value has all digits in 0..255.  A [u64; 4] is a sequence   *)
(* of four u64 limbs.  A bool is a BOOLEAN.  Byte buffers are sequences of *)
(* 0..255; the code's 0-based index k is position k + 1 of the sequence.   *)
(***************************************************************************)
EXTENDS Integers, Sequences, FiniteSets, TLC

\* ------------------------------------------------------------------------
\* Bounds of the model
\* ------------------------------------------------------------------------
MaxCols == 2
MaxLen == 2
MaxOffset == 1
MaxNumColumns == 2
MaxSubCommits == 3
MaxVars == 1
MaxCalls == 2
MaxMakes == 2

\* ------------------------------------------------------------------------
\* Program constants
\* ------------------------------------------------------------------------
BYTE_SIZE == 8

VARIABLES
    pc,                   \* position of the caller
    committable_columns,  \* the column batch
    offset,               \* global row offset
    num_columns,          \* commitment width
    num_sub_commits,      \* result of get_num_of_sub_commits_per_full_commit
    num_sub_commits_arg,  \* the sub-commit count handed to the packer
    packed,               \* result of get_bit_table_and_scalars_for_packed_msm
    mins,                 \* results of get_min_as_fr, one per column
    enc_dom,              \* encoder: the primitive domain
    enc_v1, enc_v2,       \* encoder: two values of enc_dom
    enc_b1, enc_b2,       \* encoder: their offset_to_bytes results
    b_nv,                 \* builder: num_sumcheck_variables handed to new
    b_fr,                 \* builder: the fr slice handed to new
    builder,              \* builder: the CompositePolynomialBuilder
    rc_next,              \* builder: number of Rc allocations made so far
    calls,                \* builder: the produce_* calls made so far
    makes,                \* builder: number of make_composite_polynomial calls
    poly                  \* builder: the last CompositePolynomial made

vars == <<pc, committable_columns, offset, num_columns, num_sub_commits,
          num_sub_commits_arg, packed, mins, enc_dom, enc_v1, enc_v2, enc_b1, enc_b2,
          b_nv, b_fr, builder, rc_next, calls, makes, poly>>

builder_vars == <<b_nv, b_fr, builder, rc_next, calls, makes, poly>>

packer_vars == <<committable_columns, offset, num_columns, num_sub_commits,
                 num_sub_commits_arg, packed, mins>>

encoder_vars == <<enc_dom, enc_v1, enc_v2, enc_b1, enc_b2>>

\* ------------------------------------------------------------------------
\* Primitive domains (offset_to_bytes.rs)
\* ------------------------------------------------------------------------
SignedDomains == {"i16", "i32", "i64", "i128"}

Domains == SignedDomains \cup {"u8", "u64", "bool", "u64x4"}

\* std::mem::size_of of the domain's type
SizeOf(dom) ==
    CASE dom = "u8" -> 1
      [] dom = "bool" -> 1
      [] dom = "i16" -> 2
      [] dom = "i32" -> 4
      [] dom = "i64" -> 8
      [] dom = "u64" -> 8
      [] dom = "i128" -> 16
      [] dom = "u64x4" -> 32

\* T::MIN and T::MAX of a signed domain, as digit sequences
MinOf(dom) == [k \in 1..SizeOf(dom) |-> IF k = SizeOf(dom) THEN -128 ELSE 0]

MaxOf(dom) == [k \in 1..SizeOf(dom) |-> IF k = SizeOf(dom) THEN 127 ELSE 255]

\* to_le_bytes of an integer: two's complement, least significant byte first
ToLeBytes(v) == [k \in 1..Len(v) |-> v[k] % 256]

\* the signed integer whose two's complement bytes are b
FromLeBytesSigned(b) ==
    [k \in 1..Len(b) |-> IF k = Len(b) /\ b[k] >= 128 THEN b[k] - 256 ELSE b[k]]

\* byte-wise a - b with borrow, the final borrow dropped (arithmetic mod 2^w)
RECURSIVE SubWithBorrow(_, _, _, _)
SubWithBorrow(a, b, k, borrow) ==
    IF k > Len(a) THEN <<>>
    ELSE LET d == a[k] - b[k] - borrow
         IN  <<d % 256>> \o SubWithBorrow(a, b, k + 1, IF d < 0 THEN 1 ELSE 0)

\* iN::wrapping_sub
WrappingSub(a, b) ==
    FromLeBytesSigned(SubWithBorrow(ToLeBytes(a), ToLeBytes(b), 1, 0))

RECURSIVE Flatten(_)
Flatten(ss) == IF ss = <<>> THEN <<>> ELSE Head(ss) \o Flatten(Tail(ss))

\* the limbs' bytes most significant byte first (mutant)
AsBytesBigEndian(limbs) ==
    Flatten([k \in 1..Len(limbs) |->
                [j \in 1..Len(limbs[k]) |-> limbs[k][Len(limbs[k]) + 1 - j]]])

\* zerocopy AsBytes of [u64; 4]: the limbs' bytes in memory order
\* (little-endian target)
AsBytes(limbs) == Flatten([k \in 1..Len(limbs) |-> ToLeBytes(limbs[k])])

\* to_le_bytes without the subtraction of MIN (mutant)
OffsetToBytesNoBias(dom, v) ==
    CASE dom = "bool" -> <<IF v THEN 1 ELSE 0>>
      [] dom = "u64x4" -> AsBytes(v)
      [] OTHER -> ToLeBytes(v)

\* OffsetToBytes::offset_to_bytes
OffsetToBytes(dom, v) ==
    CASE dom \in SignedDomains -> ToLeBytes(WrappingSub(v, MinOf(dom)))
      [] dom = "u8" -> <<v[1]>>
      [] dom = "bool" -> <<IF v THEN 1 ELSE 0>>
      [] dom = "u64" -> ToLeBytes(v)
      [] dom = "u64x4" -> AsBytes(v)

\* OffsetToBytes::IS_SIGNED
IsSigned(dom) == dom \in SignedDomains

\* ------------------------------------------------------------------------
\* CommittableColumn and the packer (pack_scalars.rs)
\* A column is [kind |-> variant, data |-> sequence of values].
\* ------------------------------------------------------------------------
Kinds == {"SmallInt", "Int", "BigInt", "Int128", "Decimal75", "Scalar",
          "VarChar", "Boolean", "TimestampTZ"}

\* element type of each variant's slice, as the match arms hand it to pack_bit
ElementDomain(kind) ==
    CASE kind = "SmallInt" -> "i16"
      [] kind = "Int" -> "i32"
      [] kind = "BigInt" -> "i64"
      [] kind = "Int128" -> "i128"
      [] kind = "Decimal75" -> "u64x4"
      [] kind = "Scalar" -> "u64x4"
      [] kind = "VarChar" -> "u64x4"
      [] kind = "Boolean" -> "bool"
      [] kind = "TimestampTZ" -> "i64"

get_byte_size(column) ==
    CASE column.kind = "SmallInt" -> SizeOf("i16")
      [] column.kind = "Int" -> SizeOf("i32")
      [] column.kind = "BigInt" -> SizeOf("i64")
      [] column.kind = "Int128" -> SizeOf("i128")
      [] column.kind = "Decimal75" -> SizeOf("u64x4")
      [] column.kind = "Scalar" -> SizeOf("u64x4")
      [] column.kind = "VarChar" -> SizeOf("u64x4")
      [] column.kind = "Boolean" -> SizeOf("bool")
      [] column.kind = "TimestampTZ" -> SizeOf("i64")

get_bit_size(column) == get_byte_size(column) * BYTE_SIZE

get_output_bit_table(columns) ==
    [c \in 1..Len(columns) |-> get_bit_size(columns[c])]

RECURSIVE MaxOfSeq(_)
MaxOfSeq(s) ==
    IF s = <<>> THEN 0
    ELSE LET m == MaxOfSeq(Tail(s)) IN IF Head(s) > m THEN Head(s) ELSE m

\* .map(len).max().unwrap_or(0)
get_max_committable_column_length(columns) ==
    MaxOfSeq([c \in 1..Len(columns) |-> Len(columns[c].data)])

\* each entry repeated only once, whatever the sub-commit count (mutant)
get_repeated_bit_table_once(bit_table, n) == bit_table

\* flat_map(repeat(value).take(n))
get_repeated_bit_table(bit_table, n) ==
    [k \in 1..(Len(bit_table) * n) |-> bit_table[((k - 1) \div n) + 1]]

\* iter().sum::<u32>(); the bounds keep every sum far below 2^32
RECURSIVE SumSeq(_)
SumSeq(s) == IF s = <<>> THEN 0 ELSE Head(s) + SumSeq(Tail(s))

\* iter().take(n)
Take(s, n) == SubSeq(s, 1, IF n < Len(s) THEN n ELSE Len(s))

\* A call's outcome: either a panic or a value.
Panic == [panicked |-> TRUE]

\* floor instead of ceiling (mutant)
get_num_of_sub_commits_floor(columns, off, nc) ==
    IF nc = 0 THEN Panic
    ELSE [panicked |-> FALSE,
          value |-> (get_max_committable_column_length(columns) + off) \div nc]

\* (max_column_length + num_columns - 1) / num_columns; with num_columns = 0
\* the division panics (or, for a zero length, the subtraction underflows
\* first: a panic in a checked build, a wrap followed by the division's
\* panic otherwise)
get_num_of_sub_commits_per_full_commit(columns, off, nc) ==
    LET max_column_length == get_max_committable_column_length(columns) + off
    IN  IF nc = 0 THEN Panic
        ELSE [panicked |-> FALSE,
              value |-> (max_column_length + nc - 1) \div nc]

\* packed_scalars[idx..idx + Len(bytes)].copy_from_slice(bytes)
CopyFromSlice(buf, idx, bytes) ==
    SubSeq(buf, 1, idx) \o bytes \o SubSeq(buf, idx + Len(bytes) + 1, Len(buf))

\* the write index of element i without the global offset (mutant)
pack_bit_offset_idx_no_offset(i, current_bit_table_sum, off, current_byte_size, bit_table_sum_in_bytes, nc) ==
    (i % nc) * bit_table_sum_in_bytes + current_byte_size * (i \div nc)
        + current_bit_table_sum \div BYTE_SIZE

\* the running bit-table sum taken as bytes without the division (mutant)
pack_bit_offset_idx_bits(i, current_bit_table_sum, off, current_byte_size, bit_table_sum_in_bytes, nc) ==
    ((i + off) % nc) * bit_table_sum_in_bytes
        + current_byte_size * ((i + off) \div nc) + current_bit_table_sum

\* pack_bit's offset_idx for the 0-based element index i (num_columns > 0)
pack_bit_offset_idx(i, current_bit_table_sum, off, current_byte_size, bit_table_sum_in_bytes, nc) ==
    LET byte_offset == current_bit_table_sum \div BYTE_SIZE
        row_offset == ((i + off) % nc) * bit_table_sum_in_bytes
        col_offset == current_byte_size * ((i + off) \div nc)
    IN  row_offset + col_offset + byte_offset

\* the offset bytes addressed without the running bit-table sum (mutant)
pack_offset_bit_offset_idx_no_plane(i, current_bit_table_sum, off, bit_table_sum_in_bytes, nc) ==
    ((i + off) % nc) * bit_table_sum_in_bytes + (i + off) \div nc

\* pack_offset_bit's offset_idx for the 0-based element index i
pack_offset_bit_offset_idx(i, current_bit_table_sum, off, bit_table_sum_in_bytes, nc) ==
    LET byte_offset == current_bit_table_sum \div BYTE_SIZE
        row_offset == ((i + off) % nc) * bit_table_sum_in_bytes
        col_offset == (i + off) \div nc
    IN  row_offset + col_offset + byte_offset

\* pack_bit: ps is [panicked, bytes]; i is the 0-based element index
RECURSIVE pack_bit_from(_, _, _, _, _, _, _, _, _)
pack_bit_from(i, dom, column, ps, current_bit_table_sum, off, current_byte_size, bit_table_sum_in_bytes, nc) ==
    IF ps.panicked \/ i >= Len(column) THEN ps
    ELSE IF nc = 0 THEN Panic
    ELSE
      LET offset_idx == pack_bit_offset_idx(i, current_bit_table_sum, off,
                            current_byte_size, bit_table_sum_in_bytes, nc)
          bytes == OffsetToBytes(dom, column[i + 1])
      IN  IF offset_idx + current_byte_size > Len(ps.bytes)
             \/ Len(bytes) # current_byte_size
          THEN Panic
          ELSE pack_bit_from(i + 1, dom, column,
                   [panicked |-> FALSE,
                    bytes |-> CopyFromSlice(ps.bytes, offset_idx, bytes)],
                   current_bit_table_sum, off, current_byte_size,
                   bit_table_sum_in_bytes, nc)

pack_bit(dom, column, ps, current_bit_table_sum, off, current_byte_size, bit_table_sum_in_bytes, nc) ==
    pack_bit_from(0, dom, column, ps, current_bit_table_sum, off,
                  current_byte_size, bit_table_sum_in_bytes, nc)

RECURSIVE pack_offset_bit_from(_, _, _, _, _, _, _)
pack_offset_bit_from(i, column, ps, current_bit_table_sum, off, bit_table_sum_in_bytes, nc) ==
    IF ps.panicked \/ i >= Len(column) THEN ps
    ELSE IF nc = 0 THEN Panic
    ELSE
      LET offset_idx == pack_offset_bit_offset_idx(i, current_bit_table_sum,
                            off, bit_table_sum_in_bytes, nc)
      IN  IF offset_idx >= Len(ps.bytes)
          THEN Panic
          ELSE pack_offset_bit_from(i + 1, column,
                   [panicked |-> FALSE,
                    bytes |-> CopyFromSlice(ps.bytes, offset_idx, <<1>>)],
                   current_bit_table_sum, off, bit_table_sum_in_bytes, nc)

pack_offset_bit(column, ps, current_bit_table_sum, off, bit_table_sum_in_bytes, nc) ==
    pack_offset_bit_from(0, column, ps, current_bit_table_sum, off,
                         bit_table_sum_in_bytes, nc)

\* the magnitude of T::MIN instead of T::MIN (mutant)
min_as_fr_magnitude(dom) ==
    [k \in 1..SizeOf(dom) |-> IF k = SizeOf(dom) /\ dom \in SignedDomains THEN 128 ELSE 0]

\* OffsetToBytes::min_as_fr: F::from(T::MIN) for the signed types, F::from(0)
\* or F::from(false) for the others.  The field element is the integer it
\* comes from, as a digit sequence of the type's width
min_as_fr(dom) ==
    IF dom \in SignedDomains THEN MinOf(dom) ELSE [k \in 1..SizeOf(dom) |-> 0]

\* the timestamp arm taken from the unsigned arms (mutant)
get_min_as_fr_timestamp_unsigned(column) ==
    CASE column.kind = "SmallInt" -> min_as_fr("i16")
      [] column.kind = "Int" -> min_as_fr("i32")
      [] column.kind = "BigInt" -> min_as_fr("i64")
      [] column.kind = "Int128" -> min_as_fr("i128")
      [] OTHER -> min_as_fr("u64x4")

get_min_as_fr(column) ==
    CASE column.kind = "SmallInt" -> min_as_fr("i16")
      [] column.kind = "Int" -> min_as_fr("i32")
      [] column.kind = "BigInt" -> min_as_fr("i64")
      [] column.kind = "Int128" -> min_as_fr("i128")
      [] column.kind = "Decimal75" -> min_as_fr("u64x4")
      [] column.kind = "Scalar" -> min_as_fr("u64x4")
      [] column.kind = "VarChar" -> min_as_fr("u64x4")
      [] column.kind = "Boolean" -> min_as_fr("u64x4")
      [] column.kind = "TimestampTZ" -> min_as_fr("i64")

\* every variant but the wide ones gets offset bytes (mutant)
PacksOffsetBitBoolToo(kind) ==
    kind \in {"SmallInt", "Int", "BigInt", "Int128", "TimestampTZ", "Boolean"}

\* the signed-integer variants only, without the timestamp (mutant)
PacksOffsetBitNoTimestamp(kind) ==
    kind \in {"SmallInt", "Int", "BigInt", "Int128"}

\* the variants whose match arm calls pack_offset_bit after pack_bit
PacksOffsetBit(kind) ==
    kind \in {"SmallInt", "Int", "BigInt", "Int128", "TimestampTZ"}

\* the running sum of the bit table up to the column at 0-based position i
current_bit_table_sum_of(i, bit_table, n) ==
    IF i > 0 THEN SumSeq(Take(bit_table, i * n)) ELSE 0

\* the running sum of the bit table up to column i's offset entries
bit_table_offset_sum_of(i, bit_table_sub_commits_sum, n) ==
    bit_table_sub_commits_sum + i * BYTE_SIZE * n

\* the body of the for_each closure over the columns; i is the 0-based
\* position of the column in the batch
RECURSIVE pack_columns_from(_, _, _, _, _, _, _, _, _)
pack_columns_from(i, columns, ps, bit_table, bit_table_sub_commits_sum, bit_table_sum_in_bytes, off, nc, n) ==
    IF ps.panicked \/ i >= Len(columns) THEN ps
    ELSE
      LET column == columns[i + 1]
          current_bit_table_sum == current_bit_table_sum_of(i, bit_table, n)
          bit_table_offset_sum ==
              bit_table_offset_sum_of(i, bit_table_sub_commits_sum, n)
          byte_size == get_byte_size(column)
          data_done == pack_bit(ElementDomain(column.kind), column.data, ps,
                                current_bit_table_sum, off, byte_size,
                                bit_table_sum_in_bytes, nc)
          both_done == IF PacksOffsetBit(column.kind)
                       THEN pack_offset_bit(column.data, data_done,
                                bit_table_offset_sum, off,
                                bit_table_sum_in_bytes, nc)
                       ELSE data_done
      IN  pack_columns_from(i + 1, columns, both_done, bit_table,
                            bit_table_sub_commits_sum, bit_table_sum_in_bytes,
                            off, nc, n)

\* one BYTE_SIZE entry per sub-commit instead of one per entry (mutant)
extended_bit_table_per_sub_commit(columns, n) ==
    get_repeated_bit_table(get_output_bit_table(columns), n)
        \o [k \in 1..n |-> BYTE_SIZE]

\* the extended bit table: the repeated table followed by one BYTE_SIZE
\* entry per entry of the repeated table
extended_bit_table(columns, n) ==
    LET bit_table_full_commits == get_output_bit_table(columns)
        bit_table_sub_commits ==
            get_repeated_bit_table(bit_table_full_commits, n)
    IN  bit_table_sub_commits
            \o [k \in 1..Len(bit_table_sub_commits) |-> BYTE_SIZE]

\* a buffer of one row only (mutant)
new_packed_scalars_one_row(bit_table_sum_in_bytes, nc) ==
    [k \in 1..bit_table_sum_in_bytes |-> 0]

\* vec![0_u8; bit_table_sum_in_bytes * num_columns]
new_packed_scalars(bit_table_sum_in_bytes, nc) ==
    [k \in 1..(bit_table_sum_in_bytes * nc) |-> 0]

get_bit_table_and_scalars_for_packed_msm(columns, off, nc, n) ==
    LET bit_table_full_commits == get_output_bit_table(columns)
        bit_table_sub_commits ==
            get_repeated_bit_table(bit_table_full_commits, n)
        bit_table_sub_commits_sum == SumSeq(bit_table_sub_commits)
        bit_table == extended_bit_table(columns, n)
        bit_table_sum_in_bytes == SumSeq(bit_table) \div BYTE_SIZE
        zeroed == [panicked |-> FALSE,
                   bytes |-> new_packed_scalars(bit_table_sum_in_bytes, nc)]
        ps == pack_columns_from(0, columns, zeroed, bit_table,
                                bit_table_sub_commits_sum,
                                bit_table_sum_in_bytes, off, nc, n)
    IN  IF ps.panicked THEN Panic
        ELSE [panicked |-> FALSE, bit_table |-> bit_table,
              packed_scalars |-> ps.bytes]

\* the writes a call performs when num_columns > 0 and no write panics: one
\* per element in the data plane, and one per element in the offset plane
\* for the variants that get offset bytes.  col and elem are 0-based, the
\* write covers the buffer indices start .. start + len - 1
PackWrites(columns, off, nc, n) ==
    LET bit_table == extended_bit_table(columns, n)
        sub_sum == SumSeq(get_repeated_bit_table(get_output_bit_table(columns), n))
        sum_in_bytes == SumSeq(bit_table) \div BYTE_SIZE
        DataWrites(c) ==
            {[col |-> c, elem |-> i, plane |-> "data",
              start |-> pack_bit_offset_idx(i,
                            current_bit_table_sum_of(c, bit_table, n), off,
                            get_byte_size(columns[c + 1]), sum_in_bytes, nc),
              len |-> get_byte_size(columns[c + 1])] :
                i \in 0..(Len(columns[c + 1].data) - 1)}
        OffsetWrites(c) ==
            IF PacksOffsetBit(columns[c + 1].kind)
            THEN {[col |-> c, elem |-> i, plane |-> "offset",
                   start |-> pack_offset_bit_offset_idx(i,
                                 bit_table_offset_sum_of(c, sub_sum, n), off,
                                 sum_in_bytes, nc),
                   len |-> 1] :
                     i \in 0..(Len(columns[c + 1].data) - 1)}
            ELSE {}
    IN  UNION {DataWrites(c) \cup OffsetWrites(c) :
                  c \in 0..(Len(columns) - 1)}

\* ------------------------------------------------------------------------
\* Inputs
\* ------------------------------------------------------------------------
TopSamples == {-128, -127, -1, 0, 1, 127}

ByteSamples == {0, 1, 128, 255}

\* values of a domain the encoder is run on: both extremes, their
\* neighbours, zero, and values whose low and middle bytes differ
EncoderValues(dom) ==
    CASE dom \in SignedDomains ->
           {[k \in 1..SizeOf(dom) |->
                IF k = SizeOf(dom) THEN top ELSE IF k = 1 THEN low ELSE fill] :
              top \in TopSamples, low \in ByteSamples, fill \in {0, 255}}
      [] dom = "u8" -> {<<b>> : b \in ByteSamples}
      [] dom = "u64" ->
           {[k \in 1..SizeOf(dom) |->
                IF k = SizeOf(dom) THEN top ELSE IF k = 1 THEN low ELSE fill] :
              top \in ByteSamples, low \in ByteSamples, fill \in {0, 255}}
      [] dom = "bool" -> BOOLEAN
      [] dom = "u64x4" ->
           {[l \in 1..4 |-> [k \in 1..8 |->
                IF l = 4 /\ k = 8 THEN top
                ELSE IF k = 1 THEN low ELSE (fill * l) % 256]] :
              top \in ByteSamples, low \in ByteSamples, fill \in {0, 1, 255}}

\* the element at 1-based position i of the column at 1-based position c:
\* extremes and values with pairwise different bytes, varying with c and i
ElementSamples(dom, c, i) ==
    CASE dom \in SignedDomains ->
           <<MinOf(dom),
             [k \in 1..SizeOf(dom) |-> IF k = 1 THEN 1 ELSE 0],
             MaxOf(dom),
             [k \in 1..SizeOf(dom) |-> IF k = SizeOf(dom) THEN -3 ELSE 16 * c + k],
             [k \in 1..SizeOf(dom) |-> IF k = SizeOf(dom) THEN 5 ELSE 64 * i + k]>>
      [] dom = "bool" -> <<TRUE, FALSE, TRUE, TRUE, FALSE>>
      [] dom = "u64x4" ->
           [s \in 1..5 |-> [l \in 1..4 |-> [k \in 1..8 |->
                (50 * s + 8 * l + k) % 256]]]

Element(dom, c, i) == ElementSamples(dom, c, i)[((2 * c + i) % 5) + 1]

MakeColumn(kind, len, c) ==
    [kind |-> kind,
     data |-> [i \in 1..len |-> Element(ElementDomain(kind), c, i)]]

\* the variants in the order the match statements list them
KindSeq ==
    <<"SmallInt", "Int", "BigInt", "Int128", "Decimal75", "Scalar", "VarChar",
      "Boolean", "TimestampTZ">>

\* the batches of m columns: every variant and every length for the first
\* column, and from column to column the variant and the length advance by a
\* fixed stride (every pair of variants and of lengths occurs in two
\* neighbouring columns)
Batches(m) ==
    {[c \in 1..m |->
         MakeColumn(KindSeq[((k0 + (c - 1) * kstep) % Len(KindSeq)) + 1],
                    (l0 + (c - 1) * lstep) % (MaxLen + 1), c)] :
        k0 \in 0..(Len(KindSeq) - 1), kstep \in 0..(Len(KindSeq) - 1),
        l0 \in 0..MaxLen, lstep \in 0..MaxLen}

NotCalled == [panicked |-> FALSE, called |-> FALSE]

\* ------------------------------------------------------------------------
\* The packer as a state machine: a caller computes the sub-commit count,
\* then packs with some sub-commit count, then asks for the columns' minima
\* ------------------------------------------------------------------------
Init ==
    /\ pc = "start"
    /\ \E m \in 0..MaxCols : committable_columns \in Batches(m)
    /\ offset \in 0..MaxOffset
    /\ num_columns \in 0..MaxNumColumns
    /\ num_sub_commits = NotCalled
    /\ num_sub_commits_arg = 0
    /\ packed = NotCalled
    /\ mins = <<>>
    /\ enc_dom = "u8"
    /\ enc_v1 = <<0>>
    /\ enc_v2 = <<0>>
    /\ enc_b1 = <<>>
    /\ enc_b2 = <<>>
    /\ b_nv = 0
    /\ b_fr = <<>>
    /\ builder = <<>>
    /\ rc_next = 0
    /\ calls = <<>>
    /\ makes = 0
    /\ poly = <<>>

GetNumOfSubCommits ==
    /\ pc = "start"
    /\ pc' = "counted"
    /\ num_sub_commits' =
          get_num_of_sub_commits_per_full_commit(committable_columns, offset,
                                                 num_columns)
    /\ UNCHANGED <<committable_columns, offset, num_columns,
                   num_sub_commits_arg, packed, mins>>
    /\ UNCHANGED encoder_vars
    /\ UNCHANGED builder_vars

\* the sub-commit counts a caller may pass: the one just computed, or any
\* other one
SubCommitArgs ==
    (0..MaxSubCommits)
        \cup (IF num_sub_commits.panicked THEN {} ELSE {num_sub_commits.value})

GetBitTableAndScalars ==
    /\ pc = "counted"
    /\ pc' = "packed"
    /\ \E n \in SubCommitArgs :
          /\ num_sub_commits_arg' = n
          /\ packed' = get_bit_table_and_scalars_for_packed_msm(
                           committable_columns, offset, num_columns, n)
    /\ UNCHANGED <<committable_columns, offset, num_columns, num_sub_commits, mins>>
    /\ UNCHANGED encoder_vars
    /\ UNCHANGED builder_vars

\* after a packing that returned, the caller asks for each column's minimum
GetMinAsFr ==
    /\ pc = "packed"
    /\ ~packed.panicked
    /\ pc' = "unbiased"
    /\ mins' = [c \in 1..Len(committable_columns) |-> get_min_as_fr(committable_columns[c])]
    /\ UNCHANGED <<committable_columns, offset, num_columns, num_sub_commits, num_sub_commits_arg, packed>>
    /\ UNCHANGED encoder_vars
    /\ UNCHANGED builder_vars

Next == GetNumOfSubCommits \/ GetBitTableAndScalars \/ GetMinAsFr

Spec == Init /\ [][Next]_vars

\* ------------------------------------------------------------------------
\* The encoder on its own: offset_to_bytes applied to two values of a domain
\* ------------------------------------------------------------------------
InitEnc ==
    /\ pc = "enc_start"
    /\ enc_dom \in Domains
    /\ enc_v1 \in EncoderValues(enc_dom)
    /\ enc_v2 \in EncoderValues(enc_dom)
    /\ enc_b1 = <<>>
    /\ enc_b2 = <<>>
    /\ committable_columns = <<>>
    /\ offset = 0
    /\ num_columns = 1
    /\ num_sub_commits = NotCalled
    /\ num_sub_commits_arg = 0
    /\ packed = NotCalled
    /\ mins = <<>>
    /\ b_nv = 0
    /\ b_fr = <<>>
    /\ builder = <<>>
    /\ rc_next = 0
    /\ calls = <<>>
    /\ makes = 0
    /\ poly = <<>>

Encode ==
    /\ pc = "enc_start"
    /\ pc' = "encoded"
    /\ enc_b1' = OffsetToBytes(enc_dom, enc_v1)
    /\ enc_b2' = OffsetToBytes(enc_dom, enc_v2)
    /\ UNCHANGED <<enc_dom, enc_v1, enc_v2>>
    /\ UNCHANGED packer_vars
    /\ UNCHANGED builder_vars

NextEnc == Encode

SpecEnc == InitEnc /\ [][NextEnc]_vars

\* ------------------------------------------------------------------------
\* Vocabulary of the properties
\* ------------------------------------------------------------------------
\* the least q with q * b >= a, for b >= 1
CeilDiv(a, b) ==
    CHOOSE q \in 0..a : q * b >= a /\ \A r \in 0..a : r * b >= a => q <= r

\* the greatest length among the columns, 0 for the empty batch
GreatestLength(columns) ==
    IF columns = <<>> THEN 0
    ELSE CHOOSE l \in {Len(columns[c].data) : c \in 1..Len(columns)} :
            \A c \in 1..Len(columns) : Len(columns[c].data) <= l

\* the bit width the layout gives each variant
BitWidth(kind) ==
    CASE kind = "SmallInt" -> 16
      [] kind = "Int" -> 32
      [] kind = "BigInt" -> 64
      [] kind = "Int128" -> 128
      [] kind \in {"Decimal75", "Scalar", "VarChar"} -> 256
      [] kind = "Boolean" -> 8
      [] kind = "TimestampTZ" -> 64

ByteWidth(kind) == BitWidth(kind) \div 8

SignedIntKinds == {"SmallInt", "Int", "BigInt", "Int128"}

UnsignedKinds == {"Decimal75", "Scalar", "VarChar", "Boolean"}

Cols == committable_columns

NumCols == Len(committable_columns)

N == num_sub_commits_arg

ConsistentCount == CeilDiv(GreatestLength(Cols) + offset, num_columns)

\* the packer was called with num_columns >= 1 and the consistent count
ValidCall ==
    /\ pc = "packed"
    /\ num_columns >= 1
    /\ N = ConsistentCount

\* the packer was called with num_columns >= 1 and another count
MismatchedCall ==
    /\ pc = "packed"
    /\ num_columns >= 1
    /\ N # ConsistentCount

Returned == pc = "packed" /\ ~packed.panicked

Buffer == packed.packed_scalars

\* the bytes at the 0-based indices start .. start + len - 1
Slice(start, len) == SubSeq(Buffer, start + 1, start + len)

\* R: the row size, the sum of the returned bit table in bytes
RowBytes == SumSeq(packed.bit_table) \div 8

\* P_c: the data-plane bytes of the columns before the 1-based column c
PrefixBytes(c) == SumSeq([c2 \in 1..(c - 1) |-> ByteWidth(Cols[c2].kind) * N])

\* D: the bytes of all data-plane entries
DataBytes == PrefixBytes(NumCols + 1)

RowOf(i) == (i + offset) % num_columns

ShardOf(i) == (i + offset) \div num_columns

ElementIndices(c) == 0..(Len(Cols[c].data) - 1)

\* the 0-based index of the offset-plane byte of column c (1-based)
OffsetSlot(c, row, shard) == row * RowBytes + DataBytes + (c - 1) * N + shard

Addressed(c, row, shard) ==
    \E i \in ElementIndices(c) : RowOf(i) = row /\ ShardOf(i) = shard

Rows == 0..(num_columns - 1)

Shards == 0..(N - 1)

\* ------------------------------------------------------------------------
\* C1: with num_columns >= 1 and the consistent sub-commit count, the call
\* returns, and for every column c and element i the buffer bytes
\* [row*R + P_c + shard*w_c, row*R + P_c + shard*w_c + w_c) are exactly
\* offset_to_bytes of element i, with j = i + offset, row = j mod num_columns
\* and shard = j div num_columns.
\* ------------------------------------------------------------------------
C1_DataPlaneLayout ==
    ValidCall =>
        /\ ~packed.panicked
        /\ \A c \in 1..NumCols : \A i \in ElementIndices(c) :
              LET w == ByteWidth(Cols[c].kind)
                  start == RowOf(i) * RowBytes + PrefixBytes(c) + ShardOf(i) * w
              IN  /\ start + w <= Len(Buffer)
                  /\ Slice(start, w) =
                        OffsetToBytes(ElementDomain(Cols[c].kind),
                                      Cols[c].data[i + 1])

C1_Witness ==
    /\ ValidCall
    /\ Returned
    /\ NumCols = 2
    /\ offset = 1
    /\ num_columns = 2
    /\ N = 2
    /\ Cols[1].kind = "Boolean" /\ Len(Cols[1].data) = 1
    /\ Cols[2].kind = "Int128" /\ Len(Cols[2].data) = 2

\* ------------------------------------------------------------------------
\* C2: for any batch and sub-commit count n, the returned bit table is, for
\* each column in batch order, its bit width repeated n times, followed by
\* (number of columns * n) entries equal to 8; its length is
\* 2 * number of columns * n.
\* ------------------------------------------------------------------------
C2_ExtendedBitTable ==
    Returned =>
        /\ Len(packed.bit_table) = 2 * NumCols * N
        /\ \A k \in 1..(2 * NumCols * N) :
              packed.bit_table[k] =
                 IF k <= NumCols * N
                 THEN BitWidth(Cols[((k - 1) \div N) + 1].kind)
                 ELSE 8

C2_Witness ==
    /\ Returned
    /\ NumCols = 2
    /\ N = 3
    /\ Cols[1].kind = "Decimal75"
    /\ Cols[2].kind = "TimestampTZ"
    /\ packed.bit_table = <<256, 256, 256, 64, 64, 64, 8, 8, 8, 8, 8, 8>>

\* ------------------------------------------------------------------------
\* C3: with the consistent count, for a SmallInt, Int, BigInt or Int128
\* column the offset-plane byte at row*R + D + c*n + shard is 1 for every
\* existing element and 0 in every slot of the column no element addresses;
\* for a Boolean, Decimal75, Scalar or VarChar column every offset-plane
\* byte is 0.
\* ------------------------------------------------------------------------
C3_OffsetPlane ==
    ValidCall =>
        /\ ~packed.panicked
        /\ \A c \in 1..NumCols :
              /\ Cols[c].kind \in SignedIntKinds =>
                    \A i \in ElementIndices(c) :
                        /\ ShardOf(i) \in Shards
                        /\ Buffer[OffsetSlot(c, RowOf(i), ShardOf(i)) + 1] = 1
              /\ \A row \in Rows, shard \in Shards :
                    /\ (Cols[c].kind \in SignedIntKinds
                           /\ ~Addressed(c, row, shard))
                         => Buffer[OffsetSlot(c, row, shard) + 1] = 0
                    /\ Cols[c].kind \in UnsignedKinds
                         => Buffer[OffsetSlot(c, row, shard) + 1] = 0

C3_Witness ==
    /\ ValidCall
    /\ Returned
    /\ NumCols = 2
    /\ num_columns = 2
    /\ offset = 1
    /\ N = 2
    /\ Cols[1].kind = "Scalar" /\ Len(Cols[1].data) = 2
    /\ Cols[2].kind = "SmallInt" /\ Len(Cols[2].data) = 1
    /\ Buffer[OffsetSlot(2, 1, 0) + 1] = 1
    /\ Buffer[OffsetSlot(2, 0, 0) + 1] = 0

\* ------------------------------------------------------------------------
\* Vocabulary of the encoder's properties.  Digit sequences are compared as
\* the integers they denote: at the most significant digit where they differ.
\* ------------------------------------------------------------------------
ValueLess(a, b) ==
    \E k \in 1..Len(a) :
        /\ a[k] < b[k]
        /\ \A j \in (k + 1)..Len(a) : a[j] = b[j]

\* the digits of v - MIN for a signed v of w bytes: MIN is -128 * 256^(w-1),
\* so v - MIN adds 128 to the most significant digit, which lands in 0..255
MinusMin(v) == [k \in 1..Len(v) |-> IF k = Len(v) THEN v[k] + 128 ELSE v[k]]

\* the digits of u + MIN for an unsigned u of w bytes
PlusMin(u) == [k \in 1..Len(u) |-> IF k = Len(u) THEN u[k] - 128 ELSE u[k]]

IsMinValue(v) ==
    v[Len(v)] = -128 /\ \A k \in 1..(Len(v) - 1) : v[k] = 0

IsMaxValue(v) ==
    v[Len(v)] = 127 /\ \A k \in 1..(Len(v) - 1) : v[k] = 255

\* the integer a two-digit sequence denotes
TwoDigitValue(d) == d[1] + 256 * d[2]

Encoded == pc = "encoded"

\* ------------------------------------------------------------------------
\* C4: for every signed domain and value v, the bytes of offset_to_bytes(v)
\* read as a little-endian unsigned integer equal v - MIN: MIN maps to 0,
\* MAX maps to 2^w - 1, and v1 < v2 implies encoding(v1) < encoding(v2).
\* ------------------------------------------------------------------------
C4_SignedBias ==
    (Encoded /\ enc_dom \in SignedDomains) =>
        /\ \A k \in 1..Len(enc_b1) : enc_b1[k] \in 0..255
        /\ enc_b1 = MinusMin(enc_v1)
        /\ IsMinValue(enc_v1) => \A k \in 1..Len(enc_b1) : enc_b1[k] = 0
        /\ IsMaxValue(enc_v1) => \A k \in 1..Len(enc_b1) : enc_b1[k] = 255
        /\ ValueLess(enc_v1, enc_v2) => ValueLess(enc_b1, enc_b2)
        /\ enc_dom = "i16" =>
              TwoDigitValue(enc_b1) = TwoDigitValue(enc_v1) - (-32768)

C4_Witness ==
    /\ Encoded
    /\ enc_dom = "i128"
    /\ IsMinValue(enc_v1)
    /\ IsMaxValue(enc_v2)
    /\ enc_b1 = [k \in 1..16 |-> 0]
    /\ enc_b2 = [k \in 1..16 |-> 255]

\* ------------------------------------------------------------------------
\* C5: for every primitive domain and value v, offset_to_bytes(v) has
\* exactly the domain's byte width (1, 1, 8, 2, 4, 8, 16, 32 for bool, u8,
\* u64, i16, i32, i64, i128, [u64; 4]) and decoding it recovers v:
\* little-endian unsigned plus MIN for the signed domains, raw little-endian
\* limbs for [u64; 4], 0/1 for bool; so distinct values get distinct bytes.
\* ------------------------------------------------------------------------
DomainByteWidth(dom) ==
    CASE dom = "bool" -> 1
      [] dom = "u8" -> 1
      [] dom = "u64" -> 8
      [] dom = "i16" -> 2
      [] dom = "i32" -> 4
      [] dom = "i64" -> 8
      [] dom = "i128" -> 16
      [] dom = "u64x4" -> 32

Decode(dom, b) ==
    CASE dom \in {"i16", "i32", "i64", "i128"} -> PlusMin(b)
      [] dom \in {"u8", "u64"} -> b
      [] dom = "bool" -> (b[1] = 1)
      [] dom = "u64x4" -> [l \in 1..4 |-> SubSeq(b, 8 * (l - 1) + 1, 8 * l)]

C5_RoundTrip ==
    Encoded =>
        /\ Len(enc_b1) = DomainByteWidth(enc_dom)
        /\ \A k \in 1..Len(enc_b1) : enc_b1[k] \in 0..255
        /\ Decode(enc_dom, enc_b1) = enc_v1
        /\ enc_v1 # enc_v2 => enc_b1 # enc_b2

C5_Witness ==
    /\ Encoded
    /\ enc_dom = "u64x4"
    /\ Len(enc_b1) = 32
    /\ enc_v1[1] # enc_v1[4]
    /\ enc_v1[1][1] # enc_v1[1][8]
    /\ enc_v1 # enc_v2

\* ------------------------------------------------------------------------
\* C6: for any batch (the empty one included), offset >= 0 and
\* num_columns >= 1, get_num_of_sub_commits_per_full_commit returns exactly
\* ceil((max_column_length + offset) / num_columns).
\* ------------------------------------------------------------------------
C6_SubCommitCount ==
    (pc \in {"counted", "packed"} /\ num_columns >= 1) =>
        /\ ~num_sub_commits.panicked
        /\ num_sub_commits.value =
              CeilDiv(GreatestLength(Cols) + offset, num_columns)

C6_Witness ==
    /\ pc = "counted"
    /\ NumCols = 2
    /\ Len(Cols[1].data) = 2
    /\ Len(Cols[2].data) = 1
    /\ offset = 1
    /\ num_columns = 2
    /\ num_sub_commits.value = 2

\* ------------------------------------------------------------------------
\* C7: the returned buffer has length exactly
\* (sum of the returned extended bit table / 8) * num_columns.
\* ------------------------------------------------------------------------
C7_BufferLength ==
    Returned => Len(Buffer) = (SumSeq(packed.bit_table) \div 8) * num_columns

C7_Witness ==
    /\ ValidCall
    /\ Returned
    /\ NumCols = 2
    /\ num_columns = 2
    /\ N = 2
    /\ Cols[1].kind = "Int128"
    /\ Cols[2].kind = "Boolean"
    /\ Len(Buffer) = 76

\* ------------------------------------------------------------------------
\* C8 (as claimed): for a TimestampTZ column the packer never writes
\* sign-correction bytes: every offset-plane slot of a TimestampTZ column is
\* 0.  Stated for the calls with the consistent count, where no other
\* column's write can reach the slot.
\* ------------------------------------------------------------------------
C8_TimestampPlaneZero ==
    (ValidCall /\ Returned) =>
        \A c \in 1..NumCols : Cols[c].kind = "TimestampTZ" =>
            \A row \in Rows, shard \in Shards :
                Buffer[OffsetSlot(c, row, shard) + 1] = 0

\* ------------------------------------------------------------------------
\* C8 (amended): with the consistent count, a TimestampTZ column gets
\* sign-correction bytes like the signed-integer variants: its offset-plane
\* byte is 1 at the slot of every existing element and 0 elsewhere; the
\* offset plane is written only for SmallInt, Int, BigInt, Int128 and
\* TimestampTZ columns, never for Decimal75, Scalar, VarChar or Boolean.
\* ------------------------------------------------------------------------
C8_TimestampPlaneWritten ==
    ValidCall =>
        /\ ~packed.panicked
        /\ \A c \in 1..NumCols : \A row \in Rows, shard \in Shards :
              /\ Cols[c].kind = "TimestampTZ" =>
                    Buffer[OffsetSlot(c, row, shard) + 1] =
                        (IF Addressed(c, row, shard) THEN 1 ELSE 0)
              /\ Buffer[OffsetSlot(c, row, shard) + 1] # 0 =>
                    Cols[c].kind \in SignedIntKinds \cup {"TimestampTZ"}

C8_Witness ==
    /\ ValidCall
    /\ Returned
    /\ NumCols = 2
    /\ num_columns = 2
    /\ offset = 1
    /\ N = 2
    /\ Cols[1].kind = "VarChar" /\ Len(Cols[1].data) = 2
    /\ Cols[2].kind = "TimestampTZ" /\ Len(Cols[2].data) = 1
    /\ Buffer[OffsetSlot(2, 1, 0) + 1] = 1
    /\ Buffer[OffsetSlot(2, 0, 1) + 1] = 0

\* ------------------------------------------------------------------------
\* Vocabulary of the mismatched calls
\* ------------------------------------------------------------------------
Writes == PackWrites(Cols, offset, num_columns, N)

\* two different writes touch a common byte
WritesOverlap ==
    \E w1 \in Writes, w2 \in Writes :
        /\ w1 # w2
        /\ w1.start < w2.start + w2.len
        /\ w2.start < w1.start + w1.len

\* the buffer length the call allocates, from the inputs
AllocatedBytes ==
    (SumSeq([c \in 1..NumCols |-> ByteWidth(Cols[c].kind) * N]) + NumCols * N)
        * num_columns

SomeWriteOutside == \E w \in Writes : w.start + w.len > AllocatedBytes

\* ------------------------------------------------------------------------
\* C9 (as claimed): a call with a sub-commit count other than
\* ceil((max_len + offset) / num_columns) fails fast, and so never returns a
\* layout in which one element's slot overlaps another column's or plane's
\* slot.  Stated as what the fail-fast guard is claimed to ensure: no such
\* call returns a layout with overlapping slots.
\* ------------------------------------------------------------------------
C9_NoOverlappingLayout ==
    (MismatchedCall /\ Returned) => ~WritesOverlap

\* the fail-fast half alone: every mismatched call panics
C9_FailsFast == MismatchedCall => packed.panicked

\* ------------------------------------------------------------------------
\* C10 (as claimed): a call with a sub-commit count other than
\* ceil((max_len + offset) / num_columns) never crashes and returns a
\* (bit table, buffer) pair.
\* ------------------------------------------------------------------------
C10_NeverCrashes == MismatchedCall => ~packed.panicked

\* ------------------------------------------------------------------------
\* C10 (amended): with num_columns >= 1 and a sub-commit count larger than
\* ceil((max_len + offset) / num_columns) the call never crashes: every
\* write index stays inside the buffer and a pair is returned.  With a
\* smaller count the call panics exactly when some element's write index
\* falls outside the buffer, and returns a pair otherwise.
\* ------------------------------------------------------------------------
C10_CrashesOnlyOutside ==
    MismatchedCall =>
        /\ N > ConsistentCount =>
              /\ ~packed.panicked
              /\ \A w \in Writes : w.start + w.len <= Len(Buffer)
        /\ N < ConsistentCount => (packed.panicked <=> SomeWriteOutside)

C10_Witness ==
    /\ MismatchedCall
    /\ Returned
    /\ N = ConsistentCount + 1
    /\ NumCols = 2
    /\ num_columns = 2
    /\ offset = 1
    /\ Cols[1].kind = "BigInt" /\ Len(Cols[1].data) = 2
    /\ Cols[2].kind = "Scalar" /\ Len(Cols[2].data) = 2

\* ------------------------------------------------------------------------
\* C11 (as claimed): with num_columns = 0 both
\* get_num_of_sub_commits_per_full_commit and
\* get_bit_table_and_scalars_for_packed_msm panic for every batch, the empty
\* batch and the batches of empty columns included; neither returns.
\* ------------------------------------------------------------------------
C11_ZeroColumnsFailFast ==
    num_columns = 0 =>
        /\ pc \in {"counted", "packed"} => num_sub_commits.panicked
        /\ pc = "packed" => packed.panicked

\* what the code does with num_columns = 0: the count always panics, the
\* packer panics exactly when some column has an element
C11_ZeroColumnsPanicsOnElements ==
    num_columns = 0 =>
        /\ pc \in {"counted", "packed"} => num_sub_commits.panicked
        /\ pc = "packed" => (packed.panicked <=> GreatestLength(Cols) > 0)

\* ------------------------------------------------------------------------
\* C12: for the empty batch the packer returns an empty bit table and an
\* empty buffer, for every offset, every num_columns >= 1 and every
\* sub-commit count (0 included), without failing.
\* ------------------------------------------------------------------------
C12_EmptyBatch ==
    (pc = "packed" /\ Cols = <<>> /\ num_columns >= 1) =>
        /\ ~packed.panicked
        /\ packed.bit_table = <<>>
        /\ packed.packed_scalars = <<>>

C12_Witness ==
    /\ pc = "packed"
    /\ Cols = <<>>
    /\ num_columns = 2
    /\ offset = 1
    /\ N = 3
    /\ ~packed.panicked
    /\ packed.bit_table = <<>>

\* ------------------------------------------------------------------------
\* Vocabulary of the writes' contents
\* ------------------------------------------------------------------------
Covers(w, k) == w.start <= k /\ k < w.start + w.len

\* the bytes the write w puts into the buffer
WrittenBytes(w) ==
    IF w.plane = "data"
    THEN OffsetToBytes(ElementDomain(Cols[w.col + 1].kind), Cols[w.col + 1].data[w.elem + 1])
    ELSE <<1>>

\* ------------------------------------------------------------------------
\* C19: with num_columns >= 1 and the consistent count, every byte range
\* written by pack_bit and every byte written by pack_offset_bit lies inside
\* the buffer and no two distinct writes touch the same byte; so the call
\* does not panic, and its result is the zeroed buffer with every write's
\* bytes at that write's place, whatever the order of the writes.
\* ------------------------------------------------------------------------
C19_DisjointWrites ==
    ValidCall =>
        LET W == Writes IN
        /\ ~packed.panicked
        /\ \A w \in W : w.start >= 0 /\ w.start + w.len <= Len(Buffer)
        /\ \A w1 \in W, w2 \in W :
              w1 # w2 => (w1.start + w1.len <= w2.start \/ w2.start + w2.len <= w1.start)
        /\ \A w \in W : SubSeq(Buffer, w.start + 1, w.start + w.len) = WrittenBytes(w)
        /\ \A k \in 0..(Len(Buffer) - 1) : Buffer[k + 1] # 0 => \E w \in W : Covers(w, k)

C19_Witness ==
    /\ ValidCall
    /\ Returned
    /\ NumCols = 2
    /\ num_columns = 2
    /\ offset = 1
    /\ N = 2
    /\ Cols[1].kind = "SmallInt" /\ Len(Cols[1].data) = 2
    /\ Cols[2].kind = "TimestampTZ" /\ Len(Cols[2].data) = 2
    /\ Cardinality(Writes) = 8

\* ========================================================================
\* CompositePolynomialBuilder (composite_polynomial_builder.rs)
\*
\* Scalars are integers: the values of the model stay small, so the field's
\* modulus never comes into play.  An Rc<Vec<ArkScalar>> is a record
\* [rc, vec]: rc numbers the allocation, so two Rcs are the same shared
\* vector iff their rc agree; rc_next is the next free allocation number.
\* ========================================================================

\* the identities of the evaluation vectors handed to the builder
MleIds == {"a", "b", "one", "s"}

\* the contents of the vector of identity i over a table of n rows: a and b
\* hold equal values, one is the constant-one vector, s is one row shorter
MleData(i, n) ==
    CASE i = "a" -> [k \in 1..n |-> k + 1]
      [] i = "b" -> [k \in 1..n |-> k + 1]
      [] i = "one" -> [k \in 1..n |-> 1]
      [] OTHER -> [k \in 1..(IF n = 0 THEN 0 ELSE n - 1) |-> 5]

\* a term as the builder receives it: a slice with its address and contents
Mle(i, n) == [id |-> i, data |-> MleData(i, n)]

\* MultilinearExtension::id of a term: the address of its data
id(term) == term.id

\* MultilinearExtension::to_sumcheck_term: a fresh allocation numbered rc
\* holding the values zero-padded to 2^num_vars
to_sumcheck_term(data, num_vars, rc) ==
    [rc |-> rc, vec |-> [k \in 1..(2 ^ num_vars) |-> IF k <= Len(data) THEN data[k] ELSE 0]]

\* MultilinearExtension::mul_add: res[k] += multiplier * data[k] for every k
\* of the term
mul_add(data, res, multiplier) ==
    [k \in 1..Len(res) |-> IF k <= Len(data) THEN res[k] + multiplier * data[k] ELSE res[k]]

\* CompositePolynomial::new
CompositePolynomial_new(num_variables) ==
    [num_variables |-> num_variables, products |-> <<>>]

\* CompositePolynomial::add_product: one more product, after the others
add_product(res, product, coefficient) ==
    [res EXCEPT !.products = Append(@, [coefficient |-> coefficient, terms |-> product])]

\* the cache before any insertion
EmptyMles == [i \in {} |-> 0]

\* CompositePolynomialBuilder::new; the allocation of fr is numbered rc
new(num_sumcheck_variables, fr, rc) ==
    IF 2 ^ num_sumcheck_variables >= Len(fr)
    THEN [panicked |-> FALSE,
          builder |-> [num_sumcheck_variables |-> num_sumcheck_variables,
                       fr_multiplicands_degree1 |-> [k \in 1..Len(fr) |-> 0],
                       fr_multiplicands_rest |-> <<>>,
                       zerosum_multiplicands |-> <<>>,
                       fr |-> to_sumcheck_term(fr, num_sumcheck_variables, rc),
                       mles |-> EmptyMles],
          rc_next |-> rc + 1]
    ELSE Panic

\* a builder that never looks a term up in the cache (mutant)
RECURSIVE create_multiplicand_uncached_from(_, _, _, _, _, _)
create_multiplicand_uncached_from(mles, nv, terms, j, terms_p, rc) ==
    IF j > Len(terms)
    THEN [mles |-> mles, terms_p |-> terms_p, rc_next |-> rc]
    ELSE LET term_p == to_sumcheck_term(terms[j].data, nv, rc) IN
         create_multiplicand_uncached_from((id(terms[j]) :> term_p) @@ mles, nv, terms, j + 1, Append(terms_p, term_p), rc + 1)

create_multiplicand_uncached(mles, nv, terms, rc) ==
    create_multiplicand_uncached_from(mles, nv, terms, 1, <<>>, rc)

\* the loop of create_multiplicand_with_deduplicated_mles from the term j on
RECURSIVE create_multiplicand_from(_, _, _, _, _, _)
create_multiplicand_from(mles, nv, terms, j, terms_p, rc) ==
    IF j > Len(terms)
    THEN [mles |-> mles, terms_p |-> terms_p, rc_next |-> rc]
    ELSE IF id(terms[j]) \in DOMAIN mles
         THEN create_multiplicand_from(mles, nv, terms, j + 1, Append(terms_p, mles[id(terms[j])]), rc)
         ELSE LET term_p == to_sumcheck_term(terms[j].data, nv, rc) IN
              create_multiplicand_from((id(terms[j]) :> term_p) @@ mles, nv, terms, j + 1, Append(terms_p, term_p), rc + 1)

\* create_multiplicand_with_deduplicated_mles: the cache after the call,
\* the multiplicand, and the next free allocation number
create_multiplicand_with_deduplicated_mles(mles, nv, terms, rc) ==
    create_multiplicand_from(mles, nv, terms, 1, <<>>, rc)

\* the empty-terms branch without the broadcast into the accumulator (mutant)
produce_fr_multiplicand_no_broadcast(b, mult, terms, rc) ==
    IF Len(terms) = 0
    THEN [builder |-> b, rc_next |-> rc]
    ELSE IF Len(terms) = 1
    THEN [builder |-> [b EXCEPT !.fr_multiplicands_degree1 = mul_add(terms[1].data, @, mult)], rc_next |-> rc]
    ELSE LET m == create_multiplicand_with_deduplicated_mles(b.mles, b.num_sumcheck_variables, terms, rc) IN
         [builder |-> [b EXCEPT !.mles = m.mles, !.fr_multiplicands_rest = Append(@, [mult |-> mult, terms |-> m.terms_p])], rc_next |-> m.rc_next]

\* a one-term product recorded in the fr-weighted list instead of being
\* folded into the accumulator (mutant)
produce_fr_multiplicand_no_split(b, mult, terms, rc) ==
    IF Len(terms) = 0
    THEN [builder |-> [b EXCEPT !.fr_multiplicands_degree1 = [k \in 1..Len(@) |-> @[k] + mult]], rc_next |-> rc]
    ELSE LET m == create_multiplicand_with_deduplicated_mles(b.mles, b.num_sumcheck_variables, terms, rc) IN
         [builder |-> [b EXCEPT !.mles = m.mles, !.fr_multiplicands_rest = Append(@, [mult |-> mult, terms |-> m.terms_p])], rc_next |-> m.rc_next]

\* produce_fr_multiplicand: the builder after the call and the next free
\* allocation number
produce_fr_multiplicand(b, mult, terms, rc) ==
    IF Len(terms) = 0
    THEN [builder |-> [b EXCEPT !.fr_multiplicands_degree1 = [k \in 1..Len(@) |-> @[k] + mult]], rc_next |-> rc]
    ELSE IF Len(terms) = 1
    THEN [builder |-> [b EXCEPT !.fr_multiplicands_degree1 = mul_add(terms[1].data, @, mult)], rc_next |-> rc]
    ELSE LET m == create_multiplicand_with_deduplicated_mles(b.mles, b.num_sumcheck_variables, terms, rc) IN
         [builder |-> [b EXCEPT !.mles = m.mles, !.fr_multiplicands_rest = Append(@, [mult |-> mult, terms |-> m.terms_p])], rc_next |-> m.rc_next]

\* the zero-sum request without its assertion (mutant)
produce_zerosum_multiplicand_unchecked(b, mult, terms, rc) ==
    LET m == create_multiplicand_with_deduplicated_mles(b.mles, b.num_sumcheck_variables, terms, rc) IN
    [panicked |-> FALSE,
     builder |-> [b EXCEPT !.mles = m.mles, !.zerosum_multiplicands = Append(@, [mult |-> mult, terms |-> m.terms_p])],
     rc_next |-> m.rc_next]

\* produce_zerosum_multiplicand: the assertion, then the push
produce_zerosum_multiplicand(b, mult, terms, rc) ==
    IF Len(terms) = 0
    THEN Panic
    ELSE LET m == create_multiplicand_with_deduplicated_mles(b.mles, b.num_sumcheck_variables, terms, rc) IN
         [panicked |-> FALSE,
          builder |-> [b EXCEPT !.mles = m.mles, !.zerosum_multiplicands = Append(@, [mult |-> mult, terms |-> m.terms_p])],
          rc_next |-> m.rc_next]

\* the products of list[j..] added to res, each behind the factors of head
RECURSIVE add_products_from(_, _, _, _)
add_products_from(res, head, list, j) ==
    IF j > Len(list)
    THEN res
    ELSE add_products_from(add_product(res, head \o list[j].terms, list[j].mult), head, list, j + 1)

\* an assembly that puts fr in front of the zero-sum products too (mutant)
make_composite_polynomial_fr_everywhere(b, rc) ==
    LET res0 == CompositePolynomial_new(b.num_sumcheck_variables)
        res1 == add_product(res0, <<b.fr, to_sumcheck_term(b.fr_multiplicands_degree1, b.num_sumcheck_variables, rc)>>, 1)
        res2 == add_products_from(res1, <<b.fr>>, b.fr_multiplicands_rest, 1)
    IN  add_products_from(res2, <<b.fr>>, b.zerosum_multiplicands, 1)

\* an assembly that hands over the accumulator as it is, un-padded (mutant)
make_composite_polynomial_unpadded(b, rc) ==
    LET res0 == CompositePolynomial_new(b.num_sumcheck_variables)
        res1 == add_product(res0, <<b.fr, [rc |-> rc, vec |-> b.fr_multiplicands_degree1]>>, 1)
        res2 == add_products_from(res1, <<b.fr>>, b.fr_multiplicands_rest, 1)
    IN  add_products_from(res2, <<>>, b.zerosum_multiplicands, 1)

\* make_composite_polynomial on &self: the polynomial; the padded
\* accumulator is a fresh allocation numbered rc
make_composite_polynomial(b, rc) ==
    LET res0 == CompositePolynomial_new(b.num_sumcheck_variables)
        res1 == add_product(res0, <<b.fr, to_sumcheck_term(b.fr_multiplicands_degree1, b.num_sumcheck_variables, rc)>>, 1)
        res2 == add_products_from(res1, <<b.fr>>, b.fr_multiplicands_rest, 1)
    IN  add_products_from(res2, <<>>, b.zerosum_multiplicands, 1)

\* ------------------------------------------------------------------------
\* Inputs of the builder
\* ------------------------------------------------------------------------
\* the fr slice of length n
FrSample(n) == [k \in 1..n |-> k + 2]

\* the lengths of fr tried with num_sumcheck_variables = nv: one short of
\* the hypercube, the hypercube, and one too long
FrLengths(nv) == (2 ^ nv - 1)..(2 ^ nv + 1)

\* the (mult, terms) arguments of the produce_* calls over a table of n rows
CallArgs(n) ==
    {[mult |-> 1, terms |-> <<>>],
     [mult |-> 2, terms |-> <<>>],
     [mult |-> 1, terms |-> <<Mle("one", n)>>],
     [mult |-> 2, terms |-> <<Mle("one", n)>>],
     [mult |-> 2, terms |-> <<Mle("a", n)>>],
     [mult |-> 1, terms |-> <<Mle("s", n)>>],
     [mult |-> 1, terms |-> <<Mle("a", n), Mle("b", n)>>],
     [mult |-> 2, terms |-> <<Mle("b", n), Mle("s", n), Mle("b", n)>>]}

\* ------------------------------------------------------------------------
\* The builder as a state machine: new, then produce_* and
\* make_composite_polynomial calls in any order (make borrows the builder)
\* ------------------------------------------------------------------------
InitBuilder ==
    /\ pc = "b_start"
    /\ b_nv \in 0..MaxVars
    /\ \E n \in FrLengths(b_nv) : b_fr = FrSample(n)
    /\ builder = <<>>
    /\ rc_next = 0
    /\ calls = <<>>
    /\ makes = 0
    /\ poly = <<>>
    /\ committable_columns = <<>>
    /\ offset = 0
    /\ num_columns = 1
    /\ num_sub_commits = NotCalled
    /\ num_sub_commits_arg = 0
    /\ packed = NotCalled
    /\ mins = <<>>
    /\ enc_dom = "u8"
    /\ enc_v1 = <<0>>
    /\ enc_v2 = <<0>>
    /\ enc_b1 = <<>>
    /\ enc_b2 = <<>>

New ==
    /\ pc = "b_start"
    /\ LET r == new(b_nv, b_fr, rc_next) IN
       IF r.panicked
       THEN /\ pc' = "b_panicked"
            /\ UNCHANGED <<builder, rc_next>>
       ELSE /\ pc' = "building"
            /\ builder' = r.builder
            /\ rc_next' = r.rc_next
    /\ UNCHANGED <<b_nv, b_fr, calls, makes, poly>>
    /\ UNCHANGED packer_vars
    /\ UNCHANGED <<enc_dom, enc_v1, enc_v2, enc_b1, enc_b2>>

ProduceFr ==
    /\ pc = "building"
    /\ Len(calls) < MaxCalls
    /\ \E a \in CallArgs(Len(b_fr)) :
          LET r == produce_fr_multiplicand(builder, a.mult, a.terms, rc_next) IN
          /\ builder' = r.builder
          /\ rc_next' = r.rc_next
          /\ calls' = Append(calls, [op |-> "fr", mult |-> a.mult, terms |-> a.terms, makes |-> makes, panicked |-> FALSE])
    /\ UNCHANGED <<pc, b_nv, b_fr, makes, poly>>
    /\ UNCHANGED packer_vars
    /\ UNCHANGED <<enc_dom, enc_v1, enc_v2, enc_b1, enc_b2>>

ProduceZerosum ==
    /\ pc = "building"
    /\ Len(calls) < MaxCalls
    /\ \E a \in CallArgs(Len(b_fr)) :
          LET r == produce_zerosum_multiplicand(builder, a.mult, a.terms, rc_next) IN
          /\ calls' = Append(calls, [op |-> "zerosum", mult |-> a.mult, terms |-> a.terms, makes |-> makes, panicked |-> r.panicked])
          /\ IF r.panicked
             THEN /\ pc' = "b_panicked"
                  /\ UNCHANGED <<builder, rc_next>>
             ELSE /\ pc' = pc
                  /\ builder' = r.builder
                  /\ rc_next' = r.rc_next
    /\ UNCHANGED <<b_nv, b_fr, makes, poly>>
    /\ UNCHANGED packer_vars
    /\ UNCHANGED <<enc_dom, enc_v1, enc_v2, enc_b1, enc_b2>>

\* an assembly that takes the builder by value: nothing can follow (mutant)
MakeConsuming ==
    /\ pc = "building"
    /\ makes < MaxMakes
    /\ poly' = make_composite_polynomial(builder, rc_next)
    /\ rc_next' = rc_next + 1
    /\ makes' = makes + 1
    /\ pc' = "b_consumed"
    /\ UNCHANGED <<b_nv, b_fr, builder, calls>>
    /\ UNCHANGED packer_vars
    /\ UNCHANGED <<enc_dom, enc_v1, enc_v2, enc_b1, enc_b2>>

Make ==
    /\ pc = "building"
    /\ makes < MaxMakes
    /\ poly' = make_composite_polynomial(builder, rc_next)
    /\ rc_next' = rc_next + 1
    /\ makes' = makes + 1
    /\ UNCHANGED <<pc, b_nv, b_fr, builder, calls>>
    /\ UNCHANGED packer_vars
    /\ UNCHANGED <<enc_dom, enc_v1, enc_v2, enc_b1, enc_b2>>

NextBuilder == New \/ ProduceFr \/ ProduceZerosum \/ Make

SpecBuilder == InitBuilder /\ [][NextBuilder]_vars

\* ------------------------------------------------------------------------
\* Vocabulary of the builder's properties
\* ------------------------------------------------------------------------
Built == pc \in {"building", "b_panicked"} /\ builder # <<>>

\* the produce_* calls that returned
ReturnedCalls == {j \in 1..Len(calls) : ~calls[j].panicked}

\* a step that makes one more produce_* call
CallStep == Len(calls') = Len(calls) + 1

\* ------------------------------------------------------------------------
\* C14: produce_zerosum_multiplicand with an empty term list fails by its
\* assertion before any change of state: the zero-sum list, the fr-weighted
\* list, the degree-1 accumulator and the cache are as before the call, and
\* no vector is materialised.
\* ------------------------------------------------------------------------
C14_EmptyZerosumFails ==
    [][(CallStep /\ calls'[Len(calls')].op = "zerosum" /\ calls'[Len(calls')].terms = <<>>) =>
          /\ calls'[Len(calls')].panicked
          /\ pc' = "b_panicked"
          /\ builder' = builder
          /\ rc_next' = rc_next
          /\ poly' = poly]_vars

C14_Witness ==
    /\ pc = "b_panicked"
    /\ Len(calls) = 2
    /\ calls[2].op = "zerosum" /\ calls[2].terms = <<>> /\ calls[2].panicked
    /\ calls[1].op = "zerosum" /\ Len(calls[1].terms) = 2
    /\ Len(builder.zerosum_multiplicands) = 1
    /\ DOMAIN builder.mles = {"a", "b"}

\* the fr-weighted calls that record a product: two or more terms
IsRestCall(c) == c.op = "fr" /\ ~c.panicked /\ Len(c.terms) >= 2

\* the zero-sum calls that record a product
IsZerosumCall(c) == c.op = "zerosum" /\ ~c.panicked

RestCalls == SelectSeq(calls, IsRestCall)

ZerosumCalls == SelectSeq(calls, IsZerosumCall)

\* the identities passed to the calls that record a product
DedupIds ==
    UNION {{id(c.terms[p]) : p \in 1..Len(c.terms)} : c \in {calls[j] : j \in {j \in 1..Len(calls) : IsRestCall(calls[j]) \/ IsZerosumCall(calls[j])}}}

\* the values of the vector of identity i, zero-padded to the hypercube
Padded(i) ==
    [k \in 1..(2 ^ b_nv) |-> IF k <= Len(MleData(i, Len(b_fr))) THEN MleData(i, Len(b_fr))[k] ELSE 0]

\* every term of the recorded product is the cache's entry of the identity
\* handed over at that place of the call
SharesCache(product, call) ==
    /\ product.mult = call.mult
    /\ Len(product.terms) = Len(call.terms)
    /\ \A p \in 1..Len(call.terms) : product.terms[p] = builder.mles[id(call.terms[p])]

\* ------------------------------------------------------------------------
\* C15: the cache holds exactly one padded materialisation per identity
\* passed to the produce_fr_multiplicand calls with two or more terms and
\* to the produce_zerosum_multiplicand calls; every term of every recorded
\* product is the cache's allocation of its identity (across calls and
\* within one call); distinct identities have distinct allocations, equal
\* contents or not.
\* ------------------------------------------------------------------------
C15_DedupByIdentity ==
    Built =>
        /\ DOMAIN builder.mles = DedupIds
        /\ \A i \in DOMAIN builder.mles : builder.mles[i].vec = Padded(i)
        /\ \A i, j \in DOMAIN builder.mles : i # j => builder.mles[i].rc # builder.mles[j].rc
        /\ \A i \in DOMAIN builder.mles : builder.mles[i].rc # builder.fr.rc
        /\ Len(builder.fr_multiplicands_rest) = Len(RestCalls)
        /\ Len(builder.zerosum_multiplicands) = Len(ZerosumCalls)
        /\ \A q \in 1..Len(RestCalls) : SharesCache(builder.fr_multiplicands_rest[q], RestCalls[q])
        /\ \A q \in 1..Len(ZerosumCalls) : SharesCache(builder.zerosum_multiplicands[q], ZerosumCalls[q])

C15_Witness ==
    /\ pc = "building"
    /\ Len(calls) = 2
    /\ calls[1].op = "fr" /\ Len(calls[1].terms) = 2
    /\ calls[2].op = "zerosum" /\ Len(calls[2].terms) = 3
    /\ DOMAIN builder.mles = {"a", "b", "s"}
    /\ builder.mles["a"].vec = builder.mles["b"].vec
    /\ builder.mles["a"].rc # builder.mles["b"].rc
    /\ builder.fr_multiplicands_rest[1].terms[2].rc = builder.zerosum_multiplicands[1].terms[1].rc
    /\ builder.zerosum_multiplicands[1].terms[1].rc = builder.zerosum_multiplicands[1].terms[3].rc
    /\ rc_next = 4

\* a step that calls make_composite_polynomial
MakeStep == makes' = makes + 1

\* the values of the degree-1 accumulator, zero-padded to the hypercube
PaddedDegree1 ==
    [k \in 1..(2 ^ b_nv) |-> IF k <= Len(builder.fr_multiplicands_degree1) THEN builder.fr_multiplicands_degree1[k] ELSE 0]

\* the product is head followed by the cached vectors of the call's terms,
\* with the call's coefficient
IsProductOf(product, head, call) ==
    /\ product.coefficient = call.mult
    /\ Len(product.terms) = Len(head) + Len(call.terms)
    /\ \A p \in 1..Len(head) : product.terms[p] = head[p]
    /\ \A p \in 1..Len(call.terms) : product.terms[Len(head) + p] = builder.mles[id(call.terms[p])]

\* ------------------------------------------------------------------------
\* C16: make_composite_polynomial yields 1 + (fr-weighted products
\* recorded) + (zero-sum products recorded) products in this order: first
\* [fr, padded degree-1 accumulator] with coefficient 1; then, in call
\* order, [fr] followed by the terms of each fr-weighted product with its
\* coefficient; then, in call order, the terms of each zero-sum product
\* with its coefficient and without fr.
\* ------------------------------------------------------------------------
C16_Assembly ==
    [][MakeStep =>
          LET P == poly'.products IN
          /\ poly'.num_variables = b_nv
          /\ Len(P) = 1 + Len(RestCalls) + Len(ZerosumCalls)
          /\ P[1].coefficient = 1
          /\ Len(P[1].terms) = 2
          /\ P[1].terms[1] = builder.fr
          /\ P[1].terms[2].vec = PaddedDegree1
          /\ \A q \in 1..Len(RestCalls) : IsProductOf(P[1 + q], <<builder.fr>>, RestCalls[q])
          /\ \A q \in 1..Len(ZerosumCalls) :
                /\ IsProductOf(P[1 + Len(RestCalls) + q], <<>>, ZerosumCalls[q])
                /\ \A p \in 1..Len(P[1 + Len(RestCalls) + q].terms) : P[1 + Len(RestCalls) + q].terms[p].rc # builder.fr.rc]_vars

C16_Witness ==
    /\ pc = "building"
    /\ makes = 1
    /\ Len(calls) = 2
    /\ calls[1].op = "zerosum" /\ calls[1].makes = 0
    /\ calls[2].op = "fr" /\ Len(calls[2].terms) = 3 /\ calls[2].makes = 0
    /\ Len(poly.products) = 3
    /\ Len(poly.products[2].terms) = 4
    /\ poly.products[2].coefficient = 2
    /\ Len(poly.products[3].terms) = 2
    /\ poly.products[3].coefficient = 1

\* the constant-one vector over the table of fr
ConstantOne == Mle("one", Len(b_fr))

\* the term list that C17 pairs with terms: [] with [constant-one vector]
OtherForm(terms) == IF terms = <<>> THEN <<ConstantOne>> ELSE <<>>

\* ------------------------------------------------------------------------
\* C17: from every builder state and for every mult,
\* produce_fr_multiplicand(mult, []) and produce_fr_multiplicand(mult,
\* [constant-one vector]) leave the same degree-1 accumulator, the same
\* product lists and the same cache: each step that makes one of the two
\* calls ends in the builder the other call would have produced, so that
\* make_composite_polynomial, which reads nothing but the builder, yields
\* the same polynomial after either.
\* ------------------------------------------------------------------------
C17_EmptyIsConstantOne ==
    [][(CallStep /\ calls'[Len(calls')].op = "fr" /\ calls'[Len(calls')].terms \in {<<>>, <<ConstantOne>>}) =>
          LET c == calls'[Len(calls')]
              other == produce_fr_multiplicand(builder, c.mult, OtherForm(c.terms), rc_next)
          IN  /\ builder' = other.builder
              /\ rc_next' = other.rc_next]_vars

C17_Witness ==
    /\ pc = "building"
    /\ Len(b_fr) = 2
    /\ Len(calls) = 2
    /\ calls[1].op = "fr" /\ calls[1].terms = <<>> /\ calls[1].mult = 2
    /\ calls[2].op = "fr" /\ calls[2].terms = <<ConstantOne>> /\ calls[2].mult = 2
    /\ builder.fr_multiplicands_degree1 = <<4, 4>>
    /\ builder.fr_multiplicands_rest = <<>>
    /\ DOMAIN builder.mles = {}

\* ------------------------------------------------------------------------
\* C18 (as claimed): make_composite_polynomial consumes the builder: it is
\* called at most once, and no produce_fr_multiplicand or
\* produce_zerosum_multiplicand call follows it.
\* ------------------------------------------------------------------------
C18_ConsumedOnce ==
    /\ makes <= 1
    /\ \A j \in 1..Len(calls) : calls[j].makes = 0

\* ------------------------------------------------------------------------
\* C18 (amended): make_composite_polynomial borrows the builder: the call
\* leaves the degree-1 accumulator, both product lists, the cache and fr as
\* they were, and the builder stays usable, for further produce_* calls and
\* for further make_composite_polynomial calls.
\* ------------------------------------------------------------------------
C18_MakeBorrows ==
    [][MakeStep =>
          /\ builder' = builder
          /\ calls' = calls
          /\ pc' = "building"
          /\ poly'.products[1].terms[1] = builder.fr]_vars

C18_Witness ==
    /\ pc = "building"
    /\ makes = 2
    /\ Len(calls) = 2
    /\ calls[1].makes = 0
    /\ calls[2].op = "fr" /\ Len(calls[2].terms) = 2 /\ calls[2].makes = 1
    /\ Len(builder.fr_multiplicands_rest) = 1
    /\ Len(poly.products) = 2

\* what the call c adds to the accumulator's slot k: mult for an fr call
\* without terms, mult * terms[0][k] for an fr call with one term (nothing
\* beyond the term's last row), nothing for every other call
Contribution(c, k) ==
    IF c.op = "fr" /\ ~c.panicked /\ Len(c.terms) = 0
    THEN c.mult
    ELSE IF c.op = "fr" /\ ~c.panicked /\ Len(c.terms) = 1 /\ k <= Len(c.terms[1].data)
    THEN c.mult * c.terms[1].data[k]
    ELSE 0

\* the contributions of the first j calls to the slot k
RECURSIVE Degree1Sum(_, _)
Degree1Sum(j, k) ==
    IF j = 0 THEN 0 ELSE Degree1Sum(j - 1, k) + Contribution(calls[j], k)

\* ------------------------------------------------------------------------
\* C20: after any sequence of builder operations the degree-1 accumulator
\* has the length of fr (un-padded) and its slot k is the sum of mult over
\* the produce_fr_multiplicand calls without terms plus the sum of
\* mult * terms[0][k] over those with exactly one term; calls with two or
\* more terms and zero-sum calls leave the accumulator unchanged, and calls
\* with zero or one term add nothing to the fr-weighted list, the zero-sum
\* list or the cache.
\* ------------------------------------------------------------------------
C20_Degree1Accumulator ==
    /\ [](Built =>
            /\ Len(builder.fr_multiplicands_degree1) = Len(b_fr)
            /\ \A k \in 1..Len(b_fr) : builder.fr_multiplicands_degree1[k] = Degree1Sum(Len(calls), k))
    /\ [][(CallStep /\ ~calls'[Len(calls')].panicked) =>
            IF calls'[Len(calls')].op = "fr" /\ Len(calls'[Len(calls')].terms) <= 1
            THEN /\ builder'.fr_multiplicands_rest = builder.fr_multiplicands_rest
                 /\ builder'.zerosum_multiplicands = builder.zerosum_multiplicands
                 /\ builder'.mles = builder.mles
                 /\ rc_next' = rc_next
            ELSE builder'.fr_multiplicands_degree1 = builder.fr_multiplicands_degree1]_vars

C20_Witness ==
    /\ pc = "building"
    /\ b_nv = 1
    /\ Len(b_fr) = 2
    /\ Len(calls) = 2
    /\ calls[1].op = "fr" /\ calls[1].mult = 1 /\ Len(calls[1].terms) = 1 /\ id(calls[1].terms[1]) = "s"
    /\ calls[2].op = "fr" /\ calls[2].mult = 2 /\ Len(calls[2].terms) = 1 /\ id(calls[2].terms[1]) = "a"
    /\ builder.fr_multiplicands_degree1 = <<9, 6>>
    /\ builder.fr_multiplicands_rest = <<>>
    /\ DOMAIN builder.mles = {}

\* the length of the boolean hypercube of the builder
HypercubeLength == 2 ^ b_nv

\* every vector of every product of the list has the hypercube's length
AllHypercubeLength(list) ==
    \A q \in 1..Len(list) : \A p \in 1..Len(list[q].terms) : Len(list[q].terms[p].vec) = HypercubeLength

\* ------------------------------------------------------------------------
\* C21: CompositePolynomialBuilder::new fails by its assertion exactly when
\* len(fr) > 2^num_sumcheck_variables; in every builder state the padded
\* fr, every cached materialisation and every vector of a recorded product
\* has length 2^num_sumcheck_variables, and so has every vector of every
\* product of the assembled polynomial, the padded degree-1 accumulator
\* included.
\* ------------------------------------------------------------------------
C21_HypercubeLengths ==
    /\ pc \in {"building", "b_panicked"} =>
          ((pc = "b_panicked" /\ builder = <<>>) <=> Len(b_fr) > HypercubeLength)
    /\ Built =>
          /\ builder.num_sumcheck_variables = b_nv
          /\ Len(builder.fr.vec) = HypercubeLength
          /\ \A i \in DOMAIN builder.mles : Len(builder.mles[i].vec) = HypercubeLength
          /\ AllHypercubeLength(builder.fr_multiplicands_rest)
          /\ AllHypercubeLength(builder.zerosum_multiplicands)
    /\ makes >= 1 =>
          /\ poly.num_variables = b_nv
          /\ AllHypercubeLength(poly.products)

C21_Witness ==
    /\ pc = "building"
    /\ b_nv = 1
    /\ Len(b_fr) = 1
    /\ makes = 1
    /\ Len(calls) = 2
    /\ calls[1].makes = 0 /\ calls[2].makes = 0
    /\ DOMAIN builder.mles = {"a", "b", "s"}
    /\ Len(builder.fr_multiplicands_degree1) = 1
    /\ Len(poly.products) = 3
    /\ Len(poly.products[1].terms[2].vec) = 2
    /\ Len(builder.mles["s"].vec) = 2

\* ------------------------------------------------------------------------
\* Vocabulary of the bias and its undoing.  A data slot, a minimum and a
\* value are digit sequences, least significant first, every digit but the
\* last in 0..255: two of them denote the same integer iff they are equal,
\* and the digit-wise sum or difference of two denotes the sum or the
\* difference of their integers.
\* ------------------------------------------------------------------------
\* a valid packing has returned and the minima have been asked for
ValidUnbiased ==
    /\ pc = "unbiased"
    /\ num_columns >= 1
    /\ N = ConsistentCount

\* the variants of signed elements
BiasedKinds == SignedIntKinds \cup {"TimestampTZ"}

\* the data slot of column c (1-based) at the row and shard
DataSlot(c, row, shard) ==
    Slice(row * RowBytes + PrefixBytes(c) + shard * ByteWidth(Cols[c].kind), ByteWidth(Cols[c].kind))

\* the offset-plane byte of that slot
OffsetByte(c, row, shard) == Buffer[OffsetSlot(c, row, shard) + 1]

\* the value of the element of column c that occupies the slot, 0 if none
OriginalAt(c, row, shard) ==
    IF Addressed(c, row, shard)
    THEN Cols[c].data[(CHOOSE i \in ElementIndices(c) : RowOf(i) = row /\ ShardOf(i) = shard) + 1]
    ELSE [k \in 1..ByteWidth(Cols[c].kind) |-> 0]

\* d - count * m and d + count * m
MinusScaled(d, count, m) == [k \in 1..Len(d) |-> d[k] - count * m[k]]

PlusScaled(d, count, m) == [k \in 1..Len(d) |-> d[k] + count * m[k]]

\* summed over the rows 0..row of a shard of column c: the data slots and
\* the original values, digit by digit, and the offset-plane bytes
RECURSIVE EncodedSum(_, _, _)
EncodedSum(c, shard, row) ==
    IF row < 0
    THEN [k \in 1..ByteWidth(Cols[c].kind) |-> 0]
    ELSE LET slot == DataSlot(c, row, shard)
             rest == EncodedSum(c, shard, row - 1)
         IN  [k \in 1..ByteWidth(Cols[c].kind) |-> slot[k] + rest[k]]

RECURSIVE OriginalSum(_, _, _)
OriginalSum(c, shard, row) ==
    IF row < 0
    THEN [k \in 1..ByteWidth(Cols[c].kind) |-> 0]
    ELSE LET original == OriginalAt(c, row, shard)
             rest == OriginalSum(c, shard, row - 1)
         IN  [k \in 1..ByteWidth(Cols[c].kind) |-> original[k] + rest[k]]

RECURSIVE OnesCount(_, _, _)
OnesCount(c, shard, row) ==
    IF row < 0 THEN 0 ELSE OffsetByte(c, row, shard) + OnesCount(c, shard, row - 1)

\* ------------------------------------------------------------------------
\* C22 (as claimed): for every signed column, shard and row, the data slot
\* minus (offset-plane byte * get_min_as_fr) is the original value when an
\* element occupies the slot and 0 when none does; over the rows of a
\* shard, the encoded sum minus (number of 1 bytes * MIN) is the sum of the
\* original values.
\* ------------------------------------------------------------------------
C22_SubtractMin ==
    ValidUnbiased =>
        \A c \in 1..NumCols : Cols[c].kind \in BiasedKinds =>
            \A shard \in Shards :
                /\ \A row \in Rows :
                      LET slot == DataSlot(c, row, shard)
                          one == OffsetByte(c, row, shard)
                          original == OriginalAt(c, row, shard)
                      IN  /\ MinusScaled(slot, one, mins[c]) = original
                          /\ Cols[c].kind = "SmallInt" =>
                                TwoDigitValue(slot) - one * TwoDigitValue(mins[c]) = TwoDigitValue(original)
                /\ MinusScaled(EncodedSum(c, shard, num_columns - 1), OnesCount(c, shard, num_columns - 1), mins[c])
                      = OriginalSum(c, shard, num_columns - 1)

\* ------------------------------------------------------------------------
\* C22 (amended): the sign bias is undone by adding count * MIN, MIN being
\* the negative minimum get_min_as_fr returns: the data slot plus
\* (offset-plane byte * MIN) is the original value when an element occupies
\* the slot and 0 when none does; over the rows of a shard, the encoded sum
\* plus (number of 1 bytes * MIN) is the sum of the original values.
\* ------------------------------------------------------------------------
C22_AddMin ==
    ValidUnbiased =>
        \A c \in 1..NumCols : Cols[c].kind \in BiasedKinds =>
            /\ mins[c] = [k \in 1..ByteWidth(Cols[c].kind) |-> IF k = ByteWidth(Cols[c].kind) THEN -128 ELSE 0]
            /\ \A shard \in Shards :
                  /\ \A row \in Rows :
                        LET slot == DataSlot(c, row, shard)
                            one == OffsetByte(c, row, shard)
                            original == OriginalAt(c, row, shard)
                        IN  /\ one \in {0, 1}
                            /\ PlusScaled(slot, one, mins[c]) = original
                            /\ Cols[c].kind = "SmallInt" =>
                                  TwoDigitValue(slot) + one * (-32768) = TwoDigitValue(original)
                  /\ PlusScaled(EncodedSum(c, shard, num_columns - 1), OnesCount(c, shard, num_columns - 1), mins[c])
                        = OriginalSum(c, shard, num_columns - 1)

C22_Witness ==
    /\ ValidUnbiased
    /\ NumCols = 2
    /\ num_columns = 2
    /\ offset = 1
    /\ N = 2
    /\ Cols[1].kind = "SmallInt" /\ Len(Cols[1].data) = 2
    /\ Cols[2].kind = "TimestampTZ" /\ Len(Cols[2].data) = 1
    /\ mins[1] = <<0, -128>>
    /\ OffsetByte(1, 0, 0) = 0
    /\ OffsetByte(1, 1, 0) = 1
    /\ OnesCount(1, 0, 1) = 1
    /\ OnesCount(1, 1, 1) = 1
    /\ \E row \in Rows, shard \in Shards : OriginalAt(1, row, shard)[2] < 0

\* the minimum is not 0
NonZero(m) == \E k \in 1..Len(m) : m[k] # 0

\* the bytes of a value of an unsigned variant stored as it is: the limbs
\* least significant byte first, a Boolean as 0 or 1
UnbiasedBytes(kind, v) ==
    IF kind = "Boolean" THEN <<IF v THEN 1 ELSE 0>> ELSE Flatten(v)

\* the data slot and the offset-plane byte of the element i of column c
ElementSlot(c, i) == DataSlot(c, RowOf(i), ShardOf(i))

ElementOffsetByte(c, i) == OffsetByte(c, RowOf(i), ShardOf(i))

\* ------------------------------------------------------------------------
\* C23: for every CommittableColumn variant get_min_as_fr is nonzero iff
\* the packer stores the column's elements with the MIN bias and writes
\* offset-plane 1 bytes for them (SmallInt, Int, BigInt, Int128,
\* TimestampTZ); for the variants whose get_min_as_fr is 0 (Decimal75,
\* Scalar, VarChar, Boolean) the elements are stored unbiased and no
\* offset-plane byte is written.
\* ------------------------------------------------------------------------
C23_BiasMatchesOffsetPlane ==
    ValidUnbiased =>
        \A c \in 1..NumCols :
            /\ NonZero(mins[c]) <=> Cols[c].kind \in {"SmallInt", "Int", "BigInt", "Int128", "TimestampTZ"}
            /\ ~NonZero(mins[c]) <=> Cols[c].kind \in {"Decimal75", "Scalar", "VarChar", "Boolean"}
            /\ NonZero(mins[c]) =>
                  \A i \in ElementIndices(c) :
                      /\ ElementSlot(c, i) = MinusMin(Cols[c].data[i + 1])
                      /\ ElementOffsetByte(c, i) = 1
            /\ ~NonZero(mins[c]) =>
                  /\ \A i \in ElementIndices(c) : ElementSlot(c, i) = UnbiasedBytes(Cols[c].kind, Cols[c].data[i + 1])
                  /\ \A row \in Rows, shard \in Shards : OffsetByte(c, row, shard) = 0

C23_Witness ==
    /\ ValidUnbiased
    /\ NumCols = 2
    /\ num_columns = 2
    /\ offset = 1
    /\ N = 2
    /\ Cols[1].kind = "Boolean" /\ Len(Cols[1].data) = 2
    /\ Cols[2].kind = "TimestampTZ" /\ Len(Cols[2].data) = 2
    /\ ~NonZero(mins[1])
    /\ NonZero(mins[2])
    /\ ElementOffsetByte(2, 0) = 1
    /\ ElementOffsetByte(1, 0) = 0
    /\ \E i \in ElementIndices(1) : ElementSlot(1, i) = <<1>>

====
